---- MODULE Spec2Model ----
(***************************************************************************)
(* Model of src/pycnn.py: the PyCNN cellular-neural-network image          *)
(* processor.  One PyCNN object (attributes n, m) serves one or more       *)
(* calls of generalTemplates; each call validates its input path, decodes  *)
(* the image, drives a scipy `ode` integrator in a loop and converts the   *)
(* last integrator result into an 8-bit image that it saves.               *)
(*                                                                         *)
(* Numbers.  Real values (states, biases, derivative values) are fixed     *)
(* point: the integer v stands for v / Resolution.  Pixels and template    *)
(* entries are whole numbers.  Times are counted in units of 0.05, so the  *)
(* literal 0.1 of the loop test is 2 units.                                *)
(***************************************************************************)
EXTENDS Integers, Sequences, FiniteSets, TLC

VARIABLES n, m, inp, sim, files, fnArg, fnRes

vars == <<n, m, inp, sim, files, fnArg, fnRes>>

\* ---------------------------------------------------------------- bounds
Resolution == 4      \* fixed-point steps per unit
MaxTime == 8         \* times at or below -MaxTime are folded into -MaxTime
MaxSteps == 6        \* the call counter of ode.integrate saturates here
MaxPoints == 3       \* longest TimeSpec
MaxDim == 3          \* largest height and width of a field given to Convolve2dSame
MaxVal == 3          \* cnn is applied to the values of -MaxVal..MaxVal units

\* ------------------------------------------------------- program constants
Slack == 2           \* the 0.1 of `ode.t < tFinal + 0.1`, in units of 0.05
Uint8Range == 256    \* np.uint8

One == Resolution
None == "None"
ValueError == "ValueError"
NoField == << >>     \* a local that is not bound yet, a file that is not written

\* What a call yields: a value, or the exception it raises.
Returns(v) == [raised |-> None, value |-> v]
Raises(e) == [raised |-> e, value |-> NoField]

SUPPORTED_FILETYPES == {"jpeg", "jpg", "png", "tiff", "gif", "bmp"}

\* ------------------------------------------------------------ arithmetic
Abs(x) == IF x < 0 THEN -x ELSE x

\* Sum of the nine entries of a 3x3 table of terms.
Sum9(T) ==
    T[1][1] + T[1][2] + T[1][3] +
    T[2][1] + T[2][2] + T[2][3] +
    T[3][1] + T[3][2] + T[3][3]

\* ---------------------------------------------------------------- fields
\* A Field is a sequence of n rows of m numbers.
Height(X) == Len(X)
Width(X) == IF Len(X) = 0 THEN 0 ELSE Len(X[1])
Shape(X) == <<Height(X), Width(X)>>

\* X[i][j], 0 outside the field (the zero boundary of convolve2d).
At(X, i, j) ==
    IF i \in 1..Height(X) /\ j \in 1..Width(X) THEN X[i][j] ELSE 0

\* numpy reshape of a vector to (h, w) and back, both row-major (C order).
Reshape(x, h, w) == [i \in 1..h |-> [j \in 1..w |-> x[(i - 1) * w + j]]]

Flatten(X) ==
    [k \in 1..(Height(X) * Width(X)) |->
        X[((k - 1) \div Width(X)) + 1][((k - 1) % Width(X)) + 1]]

\* scipy.signal.convolve2d(X, K): entry (p, q) of the full linear convolution,
\* whose shape is (n + 2, m + 2).
Convolve2dFull(X, K, p, q) ==
    Sum9([a \in 1..3 |-> [b \in 1..3 |->
        K[a][b] * At(X, p - a + 1, q - b + 1)]])

\* Cross-correlation of X with K, 'same' size: the kernel is not flipped.
Correlate2dSame(X, K) ==
    [i \in 1..Height(X) |-> [j \in 1..Width(X) |->
        Sum9([a \in 1..3 |-> [b \in 1..3 |->
            K[a][b] * At(X, i + a - 2, j + b - 2)]])]]

\* scipy.signal.convolve2d(X, K, 'same'): the full convolution cropped to the
\* shape of X, centred (offset (3 - 1) / 2 = 1 on each axis).
Convolve2dSame(X, K) ==
    [i \in 1..Height(X) |-> [j \in 1..Width(X) |->
        Convolve2dFull(X, K, i + 1, j + 1)]]

\* The output nonlinearity with the factor 0.5 lost.
cnnNoHalf(x) == Abs(x + One) - Abs(x - One)

\* PyCNN.cnn: 0.5 * (abs(x + 1) - abs(x - 1)) on one fixed-point sample.
\* The difference is always even, so the division is exact.
cnn(x) == (Abs(x + One) - Abs(x - One)) \div 2

cnnField(X) == [i \in 1..Height(X) |-> [j \in 1..Width(X) |-> cnn(X[i][j])]]

cnnVec(x) == [k \in 1..Len(x) |-> cnn(x[k])]

\* The derivative with the bias term lost.
fNoBias(sn, sm, t, x, Ib, Bu, tempA) ==
    IF Len(x) # sn * sm \/ Shape(Bu) # <<sn, sm>>
    THEN Raises(ValueError)
    ELSE LET X == Reshape(x, sn, sm)
             F == Convolve2dSame(cnnField(X), tempA)
         IN  Returns(Flatten([i \in 1..sn |-> [j \in 1..sm |->
                 -X[i][j] + Bu[i][j] + F[i][j]]]))

\* PyCNN.f with self.n = sn and self.m = sm.  x.reshape raises ValueError when
\* the length of x is not sn * sm; when it is but Bu has another shape, either
\* the broadcast of x + Bu or the final dx.reshape(m * n) raises ValueError.
f(sn, sm, t, x, Ib, Bu, tempA) ==
    IF Len(x) # sn * sm \/ Shape(Bu) # <<sn, sm>>
    THEN Raises(ValueError)
    ELSE LET X == Reshape(x, sn, sm)
             F == Convolve2dSame(cnnField(X), tempA)
         IN  Returns(Flatten([i \in 1..sn |-> [j \in 1..sm |->
                 -X[i][j] + Ib + Bu[i][j] + F[i][j]]]))

\* np.round of the fixed-point value x: to the nearest integer, ties to even.
Round(x) ==
    LET fl == x \div One
        r  == x % One
    IN  IF 2 * r < One THEN fl
        ELSE IF 2 * r > One THEN fl + 1
        ELSE IF fl % 2 = 0 THEN fl ELSE fl + 1

\* np.uint8 applied to a float64 value.  A value outside 0..255 is undefined
\* behaviour of the C cast: it wraps modulo 256 on some builds and saturates
\* on others (the remark on Raspberry Pi at pycnn.py:127).
Uint8(r, mode) ==
    IF r \in 0..(Uint8Range - 1) THEN r
    ELSE IF mode = "wrap" THEN r % Uint8Range
    ELSE IF r < 0 THEN 0 ELSE Uint8Range - 1

Uint8Modes == {"wrap", "saturate"}

\* ------------------------------------------------------------ validation
\* str.lower on the extensions the model draws.
Lower(e) ==
    CASE e = "PNG" -> "png"
      [] e = "TXT" -> "txt"
      [] OTHER -> e

\* validate without the file-type test.
validateNoExt(p) ==
    IF ~p.exists THEN "IOError"
    ELSE IF ~p.isfile THEN "IOError"
    ELSE "ok"

\* PyCNN.validate: the exception it raises, or "ok".
validate(p) ==
    LET ext == Lower(p.ext)
    IN  IF ~p.exists THEN "IOError"
        ELSE IF ~p.isfile THEN "IOError"
        ELSE IF ext \notin SUPPORTED_FILETYPES THEN "Exception"
        ELSE "ok"

\* --------------------------------------------------------------- inputs
SeqMax(t) == CHOOSE x \in {t[i] : i \in 1..Len(t)} :
                 \A y \in {t[i] : i \in 1..Len(t)} : y <= x

SeqMin(t) == CHOOSE x \in {t[i] : i \in 1..Len(t)} :
                 \A y \in {t[i] : i \in 1..Len(t)} : x <= y

\* np.linspace-like TimeSpec: k evenly spaced points from t0 with increment d.
Linspace(t0, d, k) == [i \in 1..k |-> t0 + (i - 1) * d]

\* Single time points: one below and one above the 0.1 of the loop test.  (The
\* point 0 makes every step a step of size 0, whose outcome is the library's
\* matter; it is not drawn.)
Singles == {1, 3}
Starts == {0, 1}
Incs == {-2, 1, 3}
TimeSpecs ==
    {<<T>> : T \in Singles} \cup
    {Linspace(t0, d, k) : t0 \in Starts, d \in Incs, k \in 2..MaxPoints}

Increasing(t) == Len(t) >= 2 /\ \A i \in 1..(Len(t) - 1) : t[i] < t[i + 1]

\* Vectors of length len that are a everywhere except b at the second
\* position (the first, for length 1).
PatternVecs(len, vals) ==
    {[k \in 1..len |-> IF k = (IF len < 2 THEN 1 ELSE 2) THEN b ELSE a] :
        a \in vals, b \in vals}

StateVals == {-2 * One, -(One \div 2), One - 1}
StateVecs(len) == PatternVecs(len, StateVals)

PixelVals == {0, 255}
Shapes == {<<1, 2>>, <<2, 1>>, <<2, 2>>}
Images ==
    {Reshape([k \in 1..(sh[1] * sh[2]) |-> IF k = 2 THEN 255 ELSE c], sh[1], sh[2]) :
        sh \in Shapes, c \in PixelVals}

\* edgeDetection (pycnn.py:201-209) and a template with asymmetric kernels as
\* generalTemplates accepts it.
EdgeTemplate ==
    [tempA |-> <<<<0, 0, 0>>, <<0, 1, 0>>, <<0, 0, 0>>>>,
     tempB |-> <<<<-1, -1, -1>>, <<-1, 8, -1>>, <<-1, -1, -1>>>>,
     Ib |-> -One, initialCondition |-> 0]

SkewTemplate ==
    [tempA |-> <<<<0, 0, 0>>, <<0, 1, 0>>, <<0, 0, 1>>>>,
     tempB |-> <<<<0, 0, 0>>, <<1, 1, 0>>, <<0, 2, 0>>>>,
     Ib |-> One \div 2, initialCondition |-> 1]

Templates == {EdgeTemplate, SkewTemplate}

Paths ==
    {p \in [exists : BOOLEAN, isfile : BOOLEAN, ext : {"PNG", "txt", ""}] :
        p.isfile => p.exists}

Inputs(paths, images, templates, timespecs) ==
    {[path |-> p, decodable |-> d, image |-> im, template |-> tp, t |-> ts] :
        p \in paths, d \in BOOLEAN, im \in images, tp \in templates,
        ts \in timespecs}

\* The locals of one call of generalTemplates before it has run.
NewSim ==
    [pc |-> "validate", err |-> None, u |-> NoField, Bu |-> NoField,
     tFinal |-> 0, dt |-> 0, odeT |-> 0, odeY |-> NoField, odeOK |-> TRUE,
     target |-> 0, steps |-> 0, evalX |-> NoField, evalDx |-> NoField]

\* PyCNN.__init__ and the pending calls `ins` (one per simulation).
InitWith(ins) ==
    /\ n = 0
    /\ m = 0
    /\ inp = ins
    /\ sim = [s \in DOMAIN ins |-> NewSim]
    /\ files = [s \in DOMAIN ins |-> NoField]
    /\ fnArg = [op |-> None]
    /\ fnRes = [op |-> None]

Init ==
    \E in1 \in Inputs(Paths, Images, Templates, TimeSpecs) :
        InitWith(<<in1>>)

\* ------------------------------------------------------------- actions
\* generalTemplates line 166: self.validate(inputLocation).
Validate(s) ==
    /\ sim[s].pc = "validate"
    /\ LET r == validate(inp[s].path)
       IN  sim' = [sim EXCEPT ![s].pc = IF r = "ok" THEN "open" ELSE "error",
                              ![s].err = IF r = "ok" THEN None ELSE r]
    /\ UNCHANGED <<n, m, inp, files, fnArg, fnRes>>

\* Fixed-point representation of a field of whole numbers.
ToFixed(X) == [i \in 1..Height(X) |-> [j \in 1..Width(X) |-> X[i][j] * One]]

Scale(X, c) == [i \in 1..Height(X) |-> [j \in 1..Width(X) |-> X[i][j] * c]]

\* imageProcessing lines 104-120: decode, set self.m and self.n, build z0 and
\* Bu, read the TimeSpec and set the integrator up.
Open(s) ==
    /\ sim[s].pc = "open"
    /\ IF ~inp[s].decodable
       THEN /\ sim' = [sim EXCEPT ![s].pc = "error", ![s].err = "DecodeError"]
            /\ UNCHANGED <<n, m>>
       ELSE LET u  == inp[s].image
                tp == inp[s].template
                t  == inp[s].t
            IN  /\ m' = Width(u)
                /\ n' = Height(u)
                /\ sim' = [sim EXCEPT
                       ![s].pc = "loop",
                       ![s].u = u,
                       ![s].Bu = ToFixed(Convolve2dSame(u, tp.tempB)),
                       ![s].odeY = Flatten(ToFixed(Scale(u, tp.initialCondition))),
                       ![s].tFinal = SeqMax(t),
                       ![s].odeT = SeqMin(t),
                       ![s].dt = IF Len(t) > 1 THEN t[2] - t[1] ELSE t[1],
                       ![s].odeOK = TRUE]
    /\ UNCHANGED <<inp, files, fnArg, fnRes>>

\* The loop test of line 121.
LoopTest(c) == c.odeOK /\ c.odeT < c.tFinal + Slack

Floor(t) == IF t < -MaxTime THEN -MaxTime ELSE t
Count(k) == IF k > MaxSteps THEN MaxSteps ELSE k

\* Line 121 true, line 122: ode.integrate(ode.t + dt) is called.
CallIntegrate(s) ==
    /\ sim[s].pc = "loop"
    /\ LoopTest(sim[s])
    /\ sim' = [sim EXCEPT ![s].pc = "integrate",
                          ![s].target = Floor(sim[s].odeT + sim[s].dt),
                          ![s].steps = Count(sim[s].steps + 1)]
    /\ UNCHANGED <<n, m, inp, files, fnArg, fnRes>>

\* Inside ode.integrate: the integrator evaluates self.f at a state of its
\* choice, with the parameters of set_f_params (Ib, Bu, tempA).  An exception
\* of f ends the call of imageProcessing.  f keeps nothing between two
\* evaluations, so one evaluation per call of integrate is followed.
EvalF(s) ==
    /\ sim[s].pc = "integrate"
    /\ sim[s].evalX = NoField
    /\ \E x \in StateVecs(Len(sim[s].odeY)) :
         LET tp == inp[s].template
             dx == f(n, m, sim[s].odeT, x, tp.Ib, sim[s].Bu, tp.tempA)
         IN  IF dx.raised # None
             THEN sim' = [sim EXCEPT ![s].pc = "error", ![s].err = dx.raised]
             ELSE sim' = [sim EXCEPT ![s].evalX = x, ![s].evalDx = dx.value]
    /\ UNCHANGED <<n, m, inp, files, fnArg, fnRes>>

\* ode.integrate returns.  On success ode.t is the requested time; on failure
\* the integrator only clears its success flag (a warning, which line 13
\* silences) and still returns a state.
IntegrateReturn(s) ==
    /\ sim[s].pc = "integrate"
    /\ \E ok \in BOOLEAN, y \in StateVecs(Len(sim[s].odeY)) :
         sim' = [sim EXCEPT ![s].pc = "loop",
                            ![s].odeOK = ok,
                            ![s].odeT = IF ok THEN sim[s].target ELSE sim[s].odeT,
                            ![s].odeY = y,
                            ![s].evalX = NoField,
                            ![s].evalDx = NoField]
    /\ UNCHANGED <<n, m, inp, files, fnArg, fnRes>>

\* Line 121 false: the loop is left.
LoopExit(s) ==
    /\ sim[s].pc = "loop"
    /\ ~LoopTest(sim[s])
    /\ sim' = [sim EXCEPT ![s].pc = "convert"]
    /\ UNCHANGED <<n, m, inp, files, fnArg, fnRes>>

\* Lines 125-126 on one sample: l / 255.0, then np.uint8(np.round(l * 255)).
\* The quotient is kept as an exact fraction.
Sample(v, mode) ==
    LET q == [num |-> v, den |-> 255]
        l == (q.num * 255) \div q.den
    IN  Uint8(Round(l), mode)

\* Lines 123-134: cnn of the last integrator result, reshape with self.n and
\* self.m, conversion to 8-bit samples, save.
Convert(s) ==
    /\ sim[s].pc = "convert"
    /\ LET z == cnnVec(sim[s].odeY)
       IN  IF Len(z) # n * m
           THEN /\ sim' = [sim EXCEPT ![s].pc = "error", ![s].err = ValueError]
                /\ UNCHANGED files
           ELSE \E mode \in Uint8Modes :
                  LET l == Reshape(z, n, m)
                  IN  /\ files' = [files EXCEPT ![s] =
                             [i \in 1..n |-> [j \in 1..m |-> Sample(l[i][j], mode)]]]
                      /\ sim' = [sim EXCEPT ![s].pc = "done"]
    /\ UNCHANGED <<n, m, inp, fnArg, fnRes>>

Next ==
    \/ \E s \in DOMAIN sim : Validate(s)
    \/ \E s \in DOMAIN sim : Open(s)
    \/ \E s \in DOMAIN sim : CallIntegrate(s)
    \/ \E s \in DOMAIN sim : EvalF(s)
    \/ \E s \in DOMAIN sim : IntegrateReturn(s)
    \/ \E s \in DOMAIN sim : LoopExit(s)
    \/ \E s \in DOMAIN sim : Convert(s)

Spec == Init /\ [][Next]_vars

\* The interpreter keeps running the call it is in: a statement that can be
\* executed is executed, and a call of integrate returns.  (How often the
\* integrator evaluates f is its own affair.)
LiveInputs ==
    Inputs(Paths, {Reshape(<<0, 255>>, 1, 2)}, {EdgeTemplate}, TimeSpecs)

InitLive == \E in1 \in LiveInputs : InitWith(<<in1>>)

Fairness ==
    /\ WF_vars(\E s \in DOMAIN sim : Validate(s))
    /\ WF_vars(\E s \in DOMAIN sim : Open(s))
    /\ WF_vars(\E s \in DOMAIN sim : CallIntegrate(s))
    /\ WF_vars(\E s \in DOMAIN sim : IntegrateReturn(s))
    /\ WF_vars(\E s \in DOMAIN sim : LoopExit(s))
    /\ WF_vars(\E s \in DOMAIN sim : Convert(s))

SpecLive == InitLive /\ [][Next]_vars /\ Fairness

\* Two calls on one PyCNN object, on images of different sizes, interleaved
\* (two threads sharing the object).
ConcInputs(h, w) ==
    Inputs(Paths, {Reshape(<<0, 255>>, h, w)}, {EdgeTemplate}, {<<3>>})

InitConc ==
    \E in1 \in ConcInputs(1, 2), in2 \in ConcInputs(2, 1) : InitWith(<<in1, in2>>)

SpecConc == InitConc /\ [][Next]_vars

\* ------------------------------------------------- the pure functions
UnitKernel(a, b) ==
    [i \in 1..3 |-> [j \in 1..3 |-> IF i = a /\ j = b THEN 1 ELSE 0]]

Kernels ==
    {UnitKernel(a, b) : a \in 1..3, b \in 1..3} \cup
    {<<<<1, 2, 3>>, <<4, 5, 6>>, <<7, 8, 9>>>>,
     <<<<0, 0, 0>>, <<0, 0, 0>>, <<0, 0, 0>>>>,
     EdgeTemplate.tempB, SkewTemplate.tempB}

FnVals == {-One, 0, 2 * One}

FnFields ==
    {Reshape(v, h, w) : h \in 1..MaxDim, w \in 1..MaxDim,
                        v \in {[k \in 1..(MaxDim * MaxDim) |-> k]} \cup
                              PatternVecs(MaxDim * MaxDim, FnVals)}

FnArgs ==
    {[op |-> "conv", X |-> X, K |-> K, x |-> 0] : X \in FnFields, K \in Kernels} \cup
    {[op |-> "cnn", X |-> NoField, K |-> NoField, x |-> x] :
        x \in (-MaxVal * One)..(MaxVal * One)}

InitFn ==
    /\ n = 0
    /\ m = 0
    /\ inp = << >>
    /\ sim = << >>
    /\ files = << >>
    /\ fnArg \in FnArgs
    /\ fnRes = [op |-> None]

\* sig.convolve2d(X, K, 'same') as lines 52 and 109 call it.
ApplyConv ==
    /\ fnArg.op = "conv"
    /\ fnRes.op = None
    /\ fnRes' = [op |-> "conv", Y |-> Convolve2dSame(fnArg.X, fnArg.K)]
    /\ UNCHANGED <<n, m, inp, sim, files, fnArg>>

\* self.cnn(x) on one sample.
ApplyCnn ==
    /\ fnArg.op = "cnn"
    /\ fnRes.op = None
    /\ fnRes' = [op |-> "cnn", y |-> cnn(fnArg.x)]
    /\ UNCHANGED <<n, m, inp, sim, files, fnArg>>

NextFn == ApplyConv \/ ApplyCnn

SpecFn == InitFn /\ [][NextFn]_vars

\* ------------------------------------------------------------ properties
Sims == DOMAIN sim
Saved(s) == files[s] # NoField
OwnShape(s) == Shape(inp[s].image)

\* X[i][j] with X taken as 0 outside [1, n] x [1, m].
ZeroExt(X, i, j) ==
    IF i >= 1 /\ i <= Len(X) /\ j >= 1 /\ j <= Len(X[1]) THEN X[i][j] ELSE 0

\* sum over di, dj in {-1, 0, 1} of K[1 + di, 1 + dj] * X[i - di, j - dj]
\* (the kernel indexed from 0, as in the statement; from 1 it is K[2 + di]).
StatedConv(X, K, i, j) ==
    LET D == <<-1, 0, 1>>
    IN  Sum9([a \in 1..3 |-> [b \in 1..3 |->
            K[2 + D[a]][2 + D[b]] * ZeroExt(X, i - D[a], j - D[b])]])

\* The saturation: x inside [-1, 1], 1 above, -1 below.
Saturate(x) == IF x > One THEN One ELSE IF x < -One THEN -One ELSE x

Clamp(v, lo, hi) == IF v < lo THEN lo ELSE IF v > hi THEN hi ELSE v

\* C1: a run whose integrator reported failure, or did not reach the
\* requested horizon, ends in an error: an output image is saved only when
\* every integration step succeeded.
C1_SaveOnlyAfterSuccess ==
    \A s \in Sims : Saved(s) => sim[s].odeOK /\ sim[s].odeT >= sim[s].tFinal

\* C2: for an increasing TimeSpec of two or more points and successful
\* steps, no call of integrate asks for a time beyond tF, and the state that
\* is converted into the output image is the state at tF.
C2_StopsAtFinalTime ==
    \A s \in Sims :
        Increasing(inp[s].t) =>
            /\ sim[s].pc = "integrate" => sim[s].target <= sim[s].tFinal
            /\ Saved(s) /\ sim[s].odeOK => sim[s].odeT = sim[s].tFinal

\* C3: every sample of the saved image is clamp(round(v), 0, 255) for v the
\* output nonlinearity of the final state at that cell; a negative rounded
\* value becomes 0, never 255.  (Stated for the runs whose integration steps
\* all succeeded.)
C3_SamplesClamped ==
    \A s \in Sims :
        Saved(s) /\ sim[s].odeOK =>
            \A i \in 1..Height(files[s]), j \in 1..Width(files[s]) :
                files[s][i][j] =
                    Clamp(Round(cnn(sim[s].odeY[(i - 1) * Width(files[s]) + j])),
                          0, 255)

\* A path that does not exist, is not a regular file or has an extension
\* outside the supported set.
BadPath(p) == ~p.exists \/ ~p.isfile \/ Lower(p.ext) \notin SUPPORTED_FILETYPES

\* C4: a call whose input path does not exist, is not a regular file or has
\* an extension outside the supported set (compared without regard to case)
\* fails in validate: the image is never decoded, no field is computed, the
\* integrator is never called and no output file is written.
C4_InvalidPathFailsEarly ==
    \A s \in Sims :
        BadPath(inp[s].path) =>
            /\ sim[s].pc \in {"validate", "error"}
            /\ sim[s].pc = "error" => sim[s].err \in {"IOError", "Exception"}
            /\ sim[s].u = NoField
            /\ sim[s].Bu = NoField
            /\ sim[s].odeY = NoField
            /\ sim[s].steps = 0
            /\ ~Saved(s)

C4_Witness ==
    \E s \in Sims :
        /\ inp[s].path.exists
        /\ inp[s].path.isfile
        /\ inp[s].path.ext = "txt"
        /\ sim[s].pc = "error"
        /\ sim[s].err = "Exception"

\* What simulation s saves when it runs alone on its final state.
AloneOutputs(s) ==
    {[i \in 1..OwnShape(s)[1] |-> [j \in 1..OwnShape(s)[2] |->
        Sample(cnn(sim[s].odeY[(i - 1) * OwnShape(s)[2] + j]), mode)]] :
            mode \in Uint8Modes}

\* C5: two interleaved simulations on images of different sizes behave as
\* each does alone: no derivative evaluation and no final reshape fails on a
\* value of n or m that the other simulation wrote, and what a simulation
\* saves is the conversion of its own final state in the shape of its own
\* image.
C5_SimulationsIsolated ==
    \A s \in Sims :
        /\ sim[s].err # ValueError
        /\ Saved(s) => files[s] \in AloneOutputs(s)

\* C6: the convolution of a field X of shape (n, m) with a 3x3 kernel K has
\* shape (n, m), and its entry (i, j) is the sum over di, dj in {-1, 0, 1} of
\* K[1 + di, 1 + dj] * X[i - di, j - dj], X being 0 outside the field.
C6_ConvolutionFormula ==
    fnRes.op = "conv" =>
        /\ Shape(fnRes.Y) = Shape(fnArg.X)
        /\ \A i \in 1..Height(fnArg.X), j \in 1..Width(fnArg.X) :
               fnRes.Y[i][j] = StatedConv(fnArg.X, fnArg.K, i, j)

C6_Witness ==
    /\ fnRes.op = "conv"
    /\ fnArg.K = <<<<1, 2, 3>>, <<4, 5, 6>>, <<7, 8, 9>>>>
    /\ Shape(fnArg.X) = <<2, 3>>
    /\ fnArg.X[1][2] # fnArg.X[2][2]
    /\ fnRes.Y[1][1] # 0

\* C7: every derivative evaluation of a run returns the row-major flattening
\* of -X + Ib + Bu + Conv(OutputNonlinearity(X), A), X the row-major reshape
\* of the argument to the shape of the image and Bu the convolution of the
\* input image with the control template, the same at every evaluation.
C7_DerivativeFormula ==
    \A s \in Sims :
        sim[s].evalX # NoField =>
            LET h  == OwnShape(s)[1]
                w  == OwnShape(s)[2]
                tp == inp[s].template
                x  == sim[s].evalX
                Y  == [i \in 1..h |-> [j \in 1..w |-> Saturate(x[(i - 1) * w + j])]]
            IN  /\ Len(sim[s].evalDx) = h * w
                /\ \A i \in 1..h, j \in 1..w :
                       sim[s].evalDx[(i - 1) * w + j] =
                           -x[(i - 1) * w + j] + tp.Ib
                           + One * StatedConv(inp[s].image, tp.tempB, i, j)
                           + StatedConv(Y, tp.tempA, i, j)

C7_Witness ==
    \E s \in Sims :
        /\ sim[s].evalX # NoField
        /\ sim[s].steps >= 2
        /\ OwnShape(s) = <<2, 2>>
        /\ inp[s].template = SkewTemplate
        /\ sim[s].evalX[2] # sim[s].evalX[3]

\* C8: cnn(x) lies in [-1, 1]; it is x for -1 <= x <= 1, 1 for x > 1 and -1
\* for x < -1.
C8_NonlinearityBounds ==
    fnRes.op = "cnn" =>
        /\ fnRes.y >= -One
        /\ fnRes.y <= One
        /\ (fnArg.x >= -One /\ fnArg.x <= One) => fnRes.y = fnArg.x
        /\ fnArg.x > One => fnRes.y = One
        /\ fnArg.x < -One => fnRes.y = -One

C8_Witness ==
    /\ fnRes.op = "cnn"
    /\ fnArg.x > One
    /\ fnRes.y = One

\* C9: for a TimeSpec of a single point T, exactly one call of integrate, of
\* step T, has been made when the final state is converted.  (Stated for
\* T > 0 and the runs whose integration steps all succeeded.)
C9_SinglePointOneStep ==
    \A s \in Sims :
        (/\ Len(inp[s].t) = 1
         /\ inp[s].t[1] > 0
         /\ sim[s].odeOK
         /\ sim[s].pc \in {"convert", "done"}) =>
            sim[s].steps = 1 /\ sim[s].dt = inp[s].t[1]

\* C10: every run leaves the integration loop: it eventually ends with the
\* image saved or with an error.
C10_LoopTerminates ==
    <>(\A s \in Sims : sim[s].pc \in {"done", "error"})

====
